---- MODULE Spec2Model ----
(***************************************************************************)
(* A model of two presentation components of the on-call plugin:           *)
(*   - IntegrationTemplate (template editor drawer): payload validation    *)
(*     (onEditPayload), debounced template edits (getChangeHandler) and    *)
(*     Save (handleSubmit);                                                *)
(*   - ScheduleFinal (rotation timeline): the current-time marker, the     *)
(*     rendered lanes and the colour of each event.                        *)
(* Time is in milliseconds for the editor and in seconds for the schedule. *)
(***************************************************************************)
EXTENDS Integers, Sequences, FiniteSets, TLC

(***************************************************************************)
(* JavaScript values.  Every value is a record tagged with its kind, so    *)
(* that values of different kinds can be compared.                         *)
(***************************************************************************)
Undefined == [type |-> "undefined"]

Null == [type |-> "null"]

\* a string held as its sequence of characters (raw texts, JSON strings)
JString(chars) == [type |-> "string", chars |-> chars]

\* a string held whole (messages)
Str(s) == [type |-> "string", str |-> s]

JNumber(n) == [type |-> "number", num |-> n]

JBool(b) == [type |-> "boolean", bool |-> b]

JArray(items) == [type |-> "array", items |-> items]

\* members: the own properties in insertion order, each [key, value]
JObject(members) == [type |-> "object", members |-> members]

\* the typeof operator: null and arrays are "object"
typeof(v) ==
    CASE v.type = "undefined" -> "undefined"
      [] v.type = "string"    -> "string"
      [] v.type = "number"    -> "number"
      [] v.type = "boolean"   -> "boolean"
      [] v.type = "null"      -> "object"
      [] v.type = "array"     -> "object"
      [] v.type = "object"    -> "object"

\* the characters of String(v) for the arguments JSON.parse is given here
ToJSString(v) ==
    CASE v.type = "string"    -> v.chars
      [] v.type = "undefined" -> <<"u", "n", "d", "e", "f", "i", "n", "e", "d">>
      [] v.type = "null"      -> <<"n", "u", "l", "l">>

(***************************************************************************)
(* JSON.parse: a recursive-descent parser over the characters of the text. *)
(* A scan returns Ok(value, next index) or Fail(index of the offending     *)
(* character, Len+1 at the end of the input).                              *)
(***************************************************************************)
Digits == {"0", "1", "2", "3", "4", "5", "6", "7", "8", "9"}

DigitVal(c) ==
    CASE c = "0" -> 0 [] c = "1" -> 1 [] c = "2" -> 2 [] c = "3" -> 3
      [] c = "4" -> 4 [] c = "5" -> 5 [] c = "6" -> 6 [] c = "7" -> 7
      [] c = "8" -> 8 [] c = "9" -> 9

IsWs(c) == c \in {" ", "\t", "\n", "\r"}

Ok(v, n) == [ok |-> TRUE, val |-> v, next |-> n]

Fail(i) == [ok |-> FALSE, at |-> i]

RECURSIVE SkipWs(_, _)
SkipWs(t, i) == IF i <= Len(t) /\ IsWs(t[i]) THEN SkipWs(t, i + 1) ELSE i

\* i is the index after the opening quote
RECURSIVE ScanString(_, _, _)
ScanString(t, i, acc) ==
    IF i > Len(t) THEN Fail(i)
    ELSE IF t[i] = "\"" THEN Ok(JString(acc), i + 1)
    ELSE ScanString(t, i + 1, Append(acc, t[i]))

RECURSIVE ScanDigits(_, _, _)
ScanDigits(t, i, acc) ==
    IF i <= Len(t) /\ t[i] \in Digits
    THEN ScanDigits(t, i + 1, acc * 10 + DigitVal(t[i]))
    ELSE Ok(JNumber(acc), i)

\* a leading zero is a number on its own
ScanNumber(t, i) == IF t[i] = "0" THEN Ok(JNumber(0), i + 1) ELSE ScanDigits(t, i, 0)

RECURSIVE ScanLiteral(_, _, _, _, _)
ScanLiteral(t, i, word, k, val) ==
    IF k > Len(word) THEN Ok(val, i)
    ELSE IF i > Len(t) \/ t[i] # word[k] THEN Fail(i)
    ELSE ScanLiteral(t, i + 1, word, k + 1, val)

\* defining a property again keeps its place and replaces its value
RECURSIVE PutMember(_, _, _)
PutMember(members, key, val) ==
    IF members = <<>> THEN <<[key |-> key, value |-> val]>>
    ELSE IF Head(members).key = key
         THEN <<[key |-> key, value |-> val]>> \o Tail(members)
         ELSE <<Head(members)>> \o PutMember(Tail(members), key, val)

\* F applied to the value of e, which is computed once
With(e, F(_)) == CHOOSE y \in {F(x) : x \in {e}} : TRUE

RECURSIVE ParseValue(_, _)
RECURSIVE ParseElements(_, _, _)
RECURSIVE ParseMembers(_, _, _)
RECURSIVE ParseMember(_, _, _)

ParseValue(t, i0) ==
    LET i == SkipWs(t, i0) IN
    IF i > Len(t) THEN Fail(i)
    ELSE CASE t[i] = "{" ->
                LET j == SkipWs(t, i + 1) IN
                IF j <= Len(t) /\ t[j] = "}" THEN Ok(JObject(<<>>), j + 1)
                ELSE ParseMembers(t, j, <<>>)
           [] t[i] = "[" ->
                LET j == SkipWs(t, i + 1) IN
                IF j <= Len(t) /\ t[j] = "]" THEN Ok(JArray(<<>>), j + 1)
                ELSE ParseElements(t, j, <<>>)
           [] t[i] = "\"" -> ScanString(t, i + 1, <<>>)
           [] t[i] \in Digits -> ScanNumber(t, i)
           [] t[i] = "t" -> ScanLiteral(t, i, <<"t", "r", "u", "e">>, 1, JBool(TRUE))
           [] t[i] = "f" -> ScanLiteral(t, i, <<"f", "a", "l", "s", "e">>, 1, JBool(FALSE))
           [] t[i] = "n" -> ScanLiteral(t, i, <<"n", "u", "l", "l">>, 1, Null)
           [] OTHER -> Fail(i)

ParseElements(t, i, acc) ==
    With(ParseValue(t, i), LAMBDA v :
        IF ~v.ok THEN v
        ELSE LET j == SkipWs(t, v.next) IN
             IF j > Len(t) THEN Fail(j)
             ELSE IF t[j] = "," THEN ParseElements(t, j + 1, Append(acc, v.val))
             ELSE IF t[j] = "]" THEN Ok(JArray(Append(acc, v.val)), j + 1)
             ELSE Fail(j))

\* the member after its key: the colon, the value, and what follows it
ParseMember(t, key, acc) ==
    LET j == SkipWs(t, key.next) IN
    IF j > Len(t) \/ t[j] # ":" THEN Fail(j)
    ELSE With(ParseValue(t, j + 1), LAMBDA v :
             IF ~v.ok THEN v
             ELSE LET k == SkipWs(t, v.next) IN
                  IF k > Len(t) THEN Fail(k)
                  ELSE IF t[k] = ","
                       THEN ParseMembers(t, k + 1, PutMember(acc, key.val.chars, v.val))
                  ELSE IF t[k] = "}"
                       THEN Ok(JObject(PutMember(acc, key.val.chars, v.val)), k + 1)
                  ELSE Fail(k))

ParseMembers(t, i0, acc) ==
    LET i == SkipWs(t, i0) IN
    IF i > Len(t) \/ t[i] # "\"" THEN Fail(i)
    ELSE With(ScanString(t, i + 1, <<>>), LAMBDA key :
             IF ~key.ok THEN key ELSE ParseMember(t, key, acc))

\* the message of the SyntaxError raised at index i (positions count from 0)
SyntaxErrorMessage(t, i) ==
    IF i > Len(t) THEN "Unexpected end of JSON input"
    ELSE "Unexpected token " \o t[i] \o " in JSON at position " \o ToString(i - 1)

\* the outcome of JSON.parse(t): a value, or a thrown SyntaxError
JSONparse(t) ==
    With(ParseValue(t, 1), LAMBDA r :
        IF ~r.ok THEN [threw |-> TRUE, message |-> SyntaxErrorMessage(t, r.at)]
        ELSE LET j == SkipWs(t, r.next) IN
             IF j <= Len(t) THEN [threw |-> TRUE, message |-> SyntaxErrorMessage(t, j)]
             ELSE [threw |-> FALSE, value |-> r.val])

(***************************************************************************)
(* Bounds of the model.                                                    *)
(***************************************************************************)
\* debounce timers of superseded change handlers that may be pending at once
MaxOrphans == 2

\* shifts, events per shift, layers and overrides drawn for the schedule
MaxShifts == 2

MaxEvents == 2

MaxLayers == 2

\* minutes around the window's edges from which the current date is drawn
MaxSkew == 2

(***************************************************************************)
(* IntegrationTemplate: inputs.                                            *)
(***************************************************************************)
\* the quiet period given to debounce
DebounceWait == 500

\* template texts typed in the editor
Bodies == {"{{ payload.title }}", "{{ payload.message }}"}

\* the templates the drawer is opened for
Templates == {[name |-> "web_title_template", isRoute |-> FALSE],
              [name |-> "route_template", isRoute |-> TRUE]}

ChannelFilterIds == {"R1"}

\* steps by which time passes (ms)
Steps == {100, 400}

T_object == <<"{", "\"", "a", "\"", ":", "1", "}">>

T_emptyObject == <<"{", "}">>

T_array == <<"[", "1", ",", "2", "]">>

T_number == <<"1", "2">>

T_string == <<"\"", "a", "\"">>

T_true == <<"t", "r", "u", "e">>

T_null == <<"n", "u", "l", "l">>

T_bad == <<"{", "b", "a", "d", " ", "j", "s", "o", "n">>

T_empty == <<>>

T_unclosed == <<"[", "1", ",">>

T_trailing == <<"{", "}", " ", "x">>

PayloadTexts == {T_object, T_emptyObject, T_array, T_number, T_string, T_true,
                 T_null, T_bad, T_empty, T_unclosed, T_trailing}

\* what onEditPayload may be called with
PayloadArgs == {Null, Undefined} \cup {JString(t) : t \in PayloadTexts}

\* the payload inputs kept while the editor is exercised
EditorPayloadArgs == {Null, JString(T_object)}

FormatError == Str("Please check your JSON format")

(***************************************************************************)
(* IntegrationTemplate: state.                                             *)
(***************************************************************************)
VARIABLES
    props,                \* template, channelFilterId, templateBody
    isCheatSheetVisible,
    alertGroupPayload,
    changedTemplateBody,
    resultError,
    pending,              \* the timer of the change handler of the latest render
    orphans,              \* the timers of the change handlers of earlier renders
    handleSubmitBody,     \* changedTemplateBody as captured by the memoized handleSubmit
    ownerCalls,           \* the owner callbacks invoked by the latest step
    escaped,              \* the latest step let an exception out
    before,               \* payload and error as the latest onEditPayload found them
    lastPayloadArg,       \* the argument of the latest onEditPayload
    installed,            \* the payload of the latest call that ended without an error
    lastEdit,             \* the value of the latest edit
    sinceEdit,            \* ms since the latest edit, at most DebounceWait
    gap,                  \* ms between the latest edit and the one before, at most DebounceWait
    commitEvent,          \* the value the latest step committed, if it was a timer
    committedBody         \* the value of the latest commit (templateBody before any)

templateVars == <<props, isCheatSheetVisible, alertGroupPayload, changedTemplateBody,
                  resultError, pending, orphans, handleSubmitBody, ownerCalls, escaped,
                  before, lastPayloadArg, installed, lastEdit, sinceEdit, gap,
                  commitEvent, committedBody>>

(***************************************************************************)
(* ScheduleFinal: the store it observes.  Dates are in seconds.            *)
(***************************************************************************)
VARIABLES
    currentDateInSelectedTimezone,
    calendarStartDate,
    shifts,       \* flattenShiftEvents(getShiftsFromStore(...)): absent or a list
    layers,       \* getLayersFromStore(...)
    overrides,    \* getOverridesFromStore(...)
    view          \* what the component rendered last

scheduleVars == <<currentDateInSelectedTimezone, calendarStartDate, shifts, layers,
                  overrides, view>>

vars == <<templateVars, scheduleVars>>

NoTimer == [armed |-> FALSE]

Timer(value, remaining) == [armed |-> TRUE, value |-> value, remaining |-> remaining]

NoCall == [type |-> "nocall"]

NoEdit == "no edit"

NoCommit == "no commit"

\* every timer that has not fired yet
Timers == orphans \cup (IF pending.armed THEN {pending} ELSE {})

(***************************************************************************)
(* IntegrationTemplate: rendering.  A render calls getChangeHandler(), so  *)
(* the editor gets a new debounced function; the timer of the function it  *)
(* had stays armed.                                                        *)
(***************************************************************************)
\* useState bails out when the value is the same; objects are new each time
StateChanged(old, new) == new # old \/ new.type \in {"object", "array"}

\* useCallback with no deps: the closure of the first render is kept
UseCallbackStale(depsChanged, fresh, memo) == memo

\* useCallback(fn, deps): the memoized closure is replaced when a dep changed
UseCallback(depsChanged, fresh, memo) == IF depsChanged THEN fresh ELSE memo

\* the timers after a step: p is the handler's timer left by the step itself
getChangeHandler(rendered, p, o) ==
    IF rendered /\ p.armed
    THEN [pending |-> NoTimer, orphans |-> o \cup {p}]
    ELSE [pending |-> p, orphans |-> o]

CanRender(rendered, p, o) ==
    Cardinality(getChangeHandler(rendered, p, o).orphans) <= MaxOrphans

Render(rendered, p, o) ==
    /\ CanRender(rendered, p, o)
    /\ pending' = getChangeHandler(rendered, p, o).pending
    /\ orphans' = getChangeHandler(rendered, p, o).orphans

(***************************************************************************)
(* onEditPayload                                                           *)
(***************************************************************************)
\* a try block that installs the payload and leaves the error as it was
onEditPayloadTryKeepsError(alertPayload) ==
    With(JSONparse(ToJSString(alertPayload)), LAMBDA jsonPayload :
        IF jsonPayload.threw THEN [threw |-> TRUE, message |-> jsonPayload.message]
        ELSE IF typeof(jsonPayload.value) = "object"
             THEN [threw |-> FALSE, setError |-> FALSE,
                   setPayload |-> TRUE, payload |-> jsonPayload.value]
             ELSE [threw |-> FALSE, setError |-> TRUE, error |-> FormatError,
                   setPayload |-> FALSE])

\* the try block: the state it sets, or the exception it raises
onEditPayloadTry(alertPayload) ==
    With(JSONparse(ToJSString(alertPayload)), LAMBDA jsonPayload :
        IF jsonPayload.threw THEN [threw |-> TRUE, message |-> jsonPayload.message]
        ELSE IF typeof(jsonPayload.value) = "object"
             THEN [threw |-> FALSE, setError |-> TRUE, error |-> Undefined,
                   setPayload |-> TRUE,
                   payload |-> JSONparse(ToJSString(alertPayload)).value]
             ELSE [threw |-> FALSE, setError |-> TRUE, error |-> FormatError,
                   setPayload |-> FALSE])

\* a catch block that shows the fixed message instead of the parser's
onEditPayloadCatchGeneric(e) ==
    [threw |-> FALSE, setError |-> TRUE, error |-> FormatError, setPayload |-> FALSE]

\* a catch block that also drops the payload
onEditPayloadCatchClearsPayload(e) ==
    [threw |-> FALSE, setError |-> TRUE, error |-> Str(e.message),
     setPayload |-> TRUE, payload |-> Undefined]

\* the catch block
onEditPayloadCatch(e) ==
    [threw |-> FALSE, setError |-> TRUE, error |-> Str(e.message), setPayload |-> FALSE]

onEditPayloadBody(alertPayload) ==
    IF alertPayload # Null
    THEN With(onEditPayloadTry(alertPayload), LAMBDA t :
             IF t.threw THEN onEditPayloadCatch(t) ELSE t)
    ELSE [threw |-> FALSE, setError |-> TRUE, error |-> Undefined,
          setPayload |-> TRUE, payload |-> Undefined]

onEditPayload(alertPayload) ==
    \E r \in {onEditPayloadBody(alertPayload)} :
    LET newError == IF ~r.threw /\ r.setError THEN r.error ELSE resultError
        newPayload == IF ~r.threw /\ r.setPayload THEN r.payload ELSE alertGroupPayload
        rendered == \/ StateChanged(resultError, newError)
                    \/ (~r.threw /\ r.setPayload /\ StateChanged(alertGroupPayload, newPayload))
    IN
    /\ resultError' = newError
    /\ alertGroupPayload' = newPayload
    /\ escaped' = r.threw
    /\ Render(rendered, pending, orphans)
    /\ before' = [payload |-> alertGroupPayload, error |-> resultError]
    /\ lastPayloadArg' = alertPayload
    /\ installed' = IF newError # Undefined THEN installed
                    ELSE IF alertPayload = Null THEN Undefined
                    ELSE JSONparse(ToJSString(alertPayload)).value
    /\ ownerCalls' = <<>>
    /\ commitEvent' = NoCommit
    /\ UNCHANGED scheduleVars
    /\ UNCHANGED gap
    /\ UNCHANGED <<props, isCheatSheetVisible, changedTemplateBody, handleSubmitBody,
                   lastEdit, sinceEdit, committedBody>>

(***************************************************************************)
(* The cheat sheet replaces the editor while it is shown.                   *)
(***************************************************************************)
onShowCheatSheet ==
    /\ isCheatSheetVisible' = TRUE
    /\ Render(isCheatSheetVisible # TRUE, pending, orphans)
    /\ ownerCalls' = <<>>
    /\ commitEvent' = NoCommit
    /\ escaped' = FALSE
    /\ UNCHANGED scheduleVars
    /\ UNCHANGED gap
    /\ UNCHANGED <<before, props, alertGroupPayload, changedTemplateBody, resultError,
                   handleSubmitBody, lastPayloadArg, installed, lastEdit, sinceEdit,
                   committedBody>>

onCloseCheatSheet ==
    /\ isCheatSheetVisible' = FALSE
    /\ Render(isCheatSheetVisible # FALSE, pending, orphans)
    /\ ownerCalls' = <<>>
    /\ commitEvent' = NoCommit
    /\ escaped' = FALSE
    /\ UNCHANGED scheduleVars
    /\ UNCHANGED gap
    /\ UNCHANGED <<before, props, alertGroupPayload, changedTemplateBody, resultError,
                   handleSubmitBody, lastPayloadArg, installed, lastEdit, sinceEdit,
                   committedBody>>

(***************************************************************************)
(* The editor calls the onChange of the latest render with the new text:   *)
(* the debounced function (re)arms its timer with the value.               *)
(***************************************************************************)
debounced(value) == Timer(value, DebounceWait)

onChange(value) ==
    /\ ~isCheatSheetVisible
    /\ pending' = debounced(value)
    /\ lastEdit' = value
    /\ gap' = sinceEdit
    /\ sinceEdit' = 0
    /\ ownerCalls' = <<>>
    /\ commitEvent' = NoCommit
    /\ escaped' = FALSE
    /\ UNCHANGED scheduleVars
    /\ UNCHANGED <<before, props, isCheatSheetVisible, alertGroupPayload, changedTemplateBody,
                   resultError, orphans, handleSubmitBody, lastPayloadArg, installed,
                   committedBody>>

\* a timer whose quiet period is over runs setChangedTemplateBody(value)
TimerFires(timer) ==
    LET rendered == timer.value # changedTemplateBody
        p == IF timer = pending THEN NoTimer ELSE pending
        o == orphans \ {timer}
    IN
    /\ timer \in Timers
    /\ timer.remaining = 0
    /\ changedTemplateBody' = timer.value
    /\ handleSubmitBody' = UseCallback(rendered, timer.value, handleSubmitBody)
    /\ Render(rendered, p, o)
    /\ commitEvent' = timer.value
    /\ committedBody' = timer.value
    /\ ownerCalls' = <<>>
    /\ escaped' = FALSE
    /\ UNCHANGED scheduleVars
    /\ UNCHANGED gap
    /\ UNCHANGED <<before, props, isCheatSheetVisible, alertGroupPayload, resultError,
                   lastPayloadArg, installed, lastEdit, sinceEdit>>

Min(a, b) == IF a < b THEN a ELSE b

\* d ms pass; no timer is overdue
Advance(d) ==
    /\ \A timer \in Timers : timer.remaining >= d
    /\ Timers # {}
    /\ pending' = IF pending.armed THEN Timer(pending.value, pending.remaining - d)
                  ELSE pending
    /\ orphans' = {Timer(timer.value, timer.remaining - d) : timer \in orphans}
    /\ sinceEdit' = Min(sinceEdit + d, DebounceWait)
    /\ ownerCalls' = <<>>
    /\ commitEvent' = NoCommit
    /\ escaped' = FALSE
    /\ UNCHANGED scheduleVars
    /\ UNCHANGED gap
    /\ UNCHANGED <<before, props, isCheatSheetVisible, alertGroupPayload, changedTemplateBody,
                   resultError, handleSubmitBody, lastPayloadArg, installed, lastEdit,
                   committedBody>>

(***************************************************************************)
(* Save                                                                    *)
(***************************************************************************)
NoChannelFilter == "none"

handleSubmit ==
    /\ ownerCalls' =
          IF props.template.isRoute
          THEN <<[callback |-> "onUpdateRoute",
                  values |-> {<<props.template.name, handleSubmitBody>>},
                  channelFilterId |-> props.channelFilterId]>>
          ELSE <<[callback |-> "onUpdateTemplates",
                  values |-> {<<props.template.name, handleSubmitBody>>},
                  channelFilterId |-> NoChannelFilter]>>
    /\ commitEvent' = NoCommit
    /\ escaped' = FALSE
    /\ UNCHANGED scheduleVars
    /\ UNCHANGED gap
    /\ UNCHANGED <<before, props, isCheatSheetVisible, alertGroupPayload, changedTemplateBody,
                   resultError, pending, orphans, handleSubmitBody, lastPayloadArg,
                   installed, lastEdit, sinceEdit, committedBody>>

(***************************************************************************)
(* The drawer as mounted.                                                  *)
(***************************************************************************)
TemplateInit ==
    /\ props \in [template : Templates, channelFilterId : ChannelFilterIds,
                  templateBody : Bodies]
    /\ isCheatSheetVisible = FALSE
    /\ alertGroupPayload = Undefined
    /\ changedTemplateBody = props.templateBody
    /\ resultError = Undefined
    /\ pending = NoTimer
    /\ orphans = {}
    /\ handleSubmitBody = props.templateBody
    /\ ownerCalls = <<>>
    /\ escaped = FALSE
    /\ before = [payload |-> Undefined, error |-> Undefined]
    /\ lastPayloadArg = NoCall
    /\ installed = Undefined
    /\ lastEdit = NoEdit
    /\ sinceEdit = DebounceWait
    /\ gap = DebounceWait
    /\ commitEvent = NoCommit
    /\ committedBody = props.templateBody

(***************************************************************************)
(* ScheduleFinal: what the store is drawn from.                            *)
(***************************************************************************)
\* the calendar window in minutes
base == 7 * 24 * 60

WeekSeconds == base * 60

ShiftRefs == {"S1", "S2"}

ColorTokens == {"red", "blue"}

FallbackColor == "fallbackColor"

\* an event, of a shift or of none
Events == {[id |-> "e1", shift |-> [pk |-> Str("S1")]],
           [id |-> "e2", shift |-> [pk |-> Str("S2")]],
           [id |-> "e3", shift |-> Undefined]}

\* the sequences over S of length up to n, without repeated elements
SeqsUpTo(S, n) ==
    UNION {{q \in [1..k -> S] : \A i, j \in 1..k : i # j => q[i] # q[j]} : k \in 0..n}

EventLists == SeqsUpTo(Events, MaxEvents)

Entries == [shiftReference : {Str(r) : r \in ShiftRefs}, colorToken : ColorTokens]

CalendarStarts == {0, WeekSeconds}

\* dates around the starts and ends of the windows, a quarter of a minute apart
Dates == {edge + 15 * k : edge \in {0, WeekSeconds, 2 * WeekSeconds},
                          k \in (-4 * MaxSkew)..(4 * MaxSkew)}

(***************************************************************************)
(* ScheduleFinal: the render.                                              *)
(***************************************************************************)
\* a.diff(b, 'minutes'): the difference in whole minutes, cut towards zero
diffMinutes(a, b) ==
    LET seconds == a - b IN
    IF seconds >= 0 THEN seconds \div 60 ELSE -((-seconds) \div 60)

\* diff / base, kept as a fraction with a positive denominator
currentTimeX(now, start) == [num |-> diffMinutes(now, start), den |-> base]

\* currentTimeX < 0 || currentTimeX > 1
currentTimeHidden(x) == x.num < 0 \/ x.num > x.den

\* the first entry of the list for the shift, 0 if there is none
RECURSIVE FirstMatch(_, _, _)
FirstMatch(entries, shiftReference, i) ==
    IF i > Len(entries) THEN 0
    ELSE IF entries[i].shiftReference = shiftReference THEN i
    ELSE FirstMatch(entries, shiftReference, i + 1)

\* overrides first, then layers, then the fallback
findColor(shiftReference, ls, os) ==
    IF FirstMatch(os, shiftReference, 1) # 0
    THEN os[FirstMatch(os, shiftReference, 1)].colorToken
    ELSE IF FirstMatch(ls, shiftReference, 1) # 0
    THEN ls[FirstMatch(ls, shiftReference, 1)].colorToken
    ELSE FallbackColor

\* event.shift?.pk
shiftPk(event) == IF event.shift = Undefined THEN Undefined ELSE event.shift.pk

\* layers and overrides handed over in the other order
getColorSwapped(event, ls, os) == findColor(shiftPk(event), os, ls)

getColor(event, ls, os) == findColor(shiftPk(event), ls, os)

\* a Rotation: its key, its events and the colour getColor gives each of them
Rotation(key, events, ls, os) ==
    [key |-> key, events |-> events,
     colors |-> [j \in 1..Len(events) |-> getColor(events[j], ls, os)]]

\* the children without the lane that stands in for an empty list
RotationsNoFallback(sh, ls, os) ==
    IF sh # Undefined
    THEN [i \in 1..Len(sh.items) |-> Rotation(i - 1, sh.items[i].events, ls, os)]
    ELSE <<>>

\* the children of the TransitionGroup
Rotations(sh, ls, os) ==
    IF sh # Undefined /\ Len(sh.items) # 0
    THEN [i \in 1..Len(sh.items) |-> Rotation(i - 1, sh.items[i].events, ls, os)]
    ELSE <<Rotation(0, <<>>, ls, os)>>

ScheduleFinal(now, start, sh, ls, os) ==
    [currentTimeX |-> currentTimeX(now, start),
     currentTimeHidden |-> currentTimeHidden(currentTimeX(now, start)),
     marker |-> ~currentTimeHidden(currentTimeX(now, start)),
     rotations |-> Rotations(sh, ls, os)]

\* the observer renders again on every change of the store
Observe ==
    view' = ScheduleFinal(currentDateInSelectedTimezone', calendarStartDate', shifts',
                          layers', overrides')

(***************************************************************************)
(* ScheduleFinal: changes of the store.                                    *)
(***************************************************************************)
SetCurrentDate(date) ==
    /\ currentDateInSelectedTimezone' = date
    /\ UNCHANGED <<calendarStartDate, shifts, layers, overrides>>
    /\ Observe
    /\ UNCHANGED templateVars

SetCalendarStartDate(date) ==
    /\ calendarStartDate' = date
    /\ UNCHANGED <<currentDateInSelectedTimezone, shifts, layers, overrides>>
    /\ Observe
    /\ UNCHANGED templateVars

\* one more shift of the schedule is in the store
ShiftLoaded(events) ==
    /\ shifts' = IF shifts = Undefined THEN JArray(<<[events |-> events]>>)
                 ELSE JArray(Append(shifts.items, [events |-> events]))
    /\ Len(shifts'.items) <= MaxShifts
    /\ UNCHANGED <<currentDateInSelectedTimezone, calendarStartDate, layers, overrides>>
    /\ Observe
    /\ UNCHANGED templateVars

\* the schedule has no shifts in the window
ShiftsEmptied ==
    /\ shifts' = JArray(<<>>)
    /\ UNCHANGED <<currentDateInSelectedTimezone, calendarStartDate, layers, overrides>>
    /\ Observe
    /\ UNCHANGED templateVars

\* the window changed and its shifts are not in the store yet
ShiftsDropped ==
    /\ shifts' = Undefined
    /\ UNCHANGED <<currentDateInSelectedTimezone, calendarStartDate, layers, overrides>>
    /\ Observe
    /\ UNCHANGED templateVars

LayerLoaded(layer) ==
    /\ Len(layers) < MaxLayers
    /\ layers' = Append(layers, layer)
    /\ UNCHANGED <<currentDateInSelectedTimezone, calendarStartDate, shifts, overrides>>
    /\ Observe
    /\ UNCHANGED templateVars

LayersDropped ==
    /\ layers' = <<>>
    /\ UNCHANGED <<currentDateInSelectedTimezone, calendarStartDate, shifts, overrides>>
    /\ Observe
    /\ UNCHANGED templateVars

OverrideLoaded(override) ==
    /\ Len(overrides) < MaxLayers
    /\ overrides' = Append(overrides, override)
    /\ UNCHANGED <<currentDateInSelectedTimezone, calendarStartDate, shifts, layers>>
    /\ Observe
    /\ UNCHANGED templateVars

OverridesDropped ==
    /\ overrides' = <<>>
    /\ UNCHANGED <<currentDateInSelectedTimezone, calendarStartDate, shifts, layers>>
    /\ Observe
    /\ UNCHANGED templateVars

\* the schedule page as mounted, on the current week with nothing loaded
ScheduleInit ==
    /\ currentDateInSelectedTimezone = WeekSeconds
    /\ calendarStartDate = WeekSeconds
    /\ shifts = Undefined
    /\ layers = <<>>
    /\ overrides = <<>>
    /\ view = ScheduleFinal(currentDateInSelectedTimezone, calendarStartDate, shifts,
                            layers, overrides)

\* a schedule with one shift of every kind of event, for the colours
ColorsInit ==
    /\ currentDateInSelectedTimezone = WeekSeconds
    /\ calendarStartDate = WeekSeconds
    /\ shifts \in {JArray(<<[events |-> events]>>) : events \in EventLists}
    /\ layers = <<>>
    /\ overrides = <<>>
    /\ view = ScheduleFinal(currentDateInSelectedTimezone, calendarStartDate, shifts,
                            layers, overrides)

(***************************************************************************)
(* Specifications.                                                         *)
(***************************************************************************)
Init == TemplateInit /\ ScheduleInit

\* the payload pane of the drawer
PayloadNext ==
    \/ \E alertPayload \in PayloadArgs : onEditPayload(alertPayload)
    \/ onShowCheatSheet
    \/ onCloseCheatSheet

SpecPayload == Init /\ [][PayloadNext]_vars

\* the editor of the drawer
EditorNext ==
    \/ \E value \in Bodies : onChange(value)
    \/ \E timer \in Timers : TimerFires(timer)
    \/ \E d \in Steps : Advance(d)
    \/ handleSubmit
    \/ onShowCheatSheet
    \/ onCloseCheatSheet
    \/ \E alertPayload \in EditorPayloadArgs : onEditPayload(alertPayload)

Spec == Init /\ [][EditorNext]_vars

\* the clock of the schedule
ClockNext ==
    \/ \E date \in Dates : SetCurrentDate(date)
    \/ \E date \in CalendarStarts : SetCalendarStartDate(date)

SpecClock == Init /\ [][ClockNext]_vars

\* the lanes of the schedule
LanesNext ==
    \/ \E events \in EventLists : ShiftLoaded(events)
    \/ ShiftsEmptied
    \/ ShiftsDropped

SpecLanes == Init /\ [][LanesNext]_vars

\* the colours of the schedule
ColorsNext ==
    \/ \E layer \in Entries : LayerLoaded(layer)
    \/ LayersDropped
    \/ \E override \in Entries : OverrideLoaded(override)
    \/ OverridesDropped

InitColors == TemplateInit /\ ColorsInit

SpecColors == InitColors /\ [][ColorsNext]_vars

(***************************************************************************)
(* Properties of onEditPayload.                                            *)
(***************************************************************************)
\* JSON.parse of the text the latest onEditPayload was given
LastParse == JSONparse(ToJSString(lastPayloadArg))

LastWasText == lastPayloadArg.type = "string"

\* C1: a text that parses to something that is not an object (a scalar, null,
\* an array) leaves the error "Please check your JSON format" and its value is
\* not the payload.
C1_NonObjectRejected ==
    (LastWasText /\ ~LastParse.threw /\ LastParse.value.type # "object")
        => /\ resultError = FormatError
           /\ alertGroupPayload # LastParse.value

\* C4: after onEditPayload(null) or onEditPayload(undefined) there is no payload
\* and no error, whatever was held before.
C4_NullOrAbsentIsEmpty ==
    lastPayloadArg \in {Null, Undefined}
        => /\ alertGroupPayload = Undefined
           /\ resultError = Undefined

\* C5: a text on which JSON.parse fails never makes onEditPayload throw; the
\* error shown is the parser's own message.
C5_ParseFailureShown ==
    (LastWasText /\ LastParse.threw)
        => /\ ~escaped
           /\ resultError = Str(LastParse.message)

C5_Witness ==
    /\ lastPayloadArg = JString(T_bad)
    /\ resultError = Str("Unexpected token b in JSON at position 1")
    /\ before.payload # Undefined

\* C8: a text that parses to an object becomes the payload and the error is
\* cleared, also the error of an earlier invalid input.
C8_ObjectInstalled ==
    (LastWasText /\ ~LastParse.threw /\ LastParse.value.type = "object")
        => /\ alertGroupPayload = LastParse.value
           /\ resultError = Undefined

C8_Witness ==
    /\ lastPayloadArg = JString(T_object)
    /\ before.error # Undefined
    /\ resultError = Undefined
    /\ alertGroupPayload = JObject(<<[key |-> <<"a">>, value |-> JNumber(1)]>>)

\* C9: a call that ends in an error leaves the payload (and the rest of the
\* drawer's state) as it found it, so the payload is always the one of the
\* latest call that was null or accepted, and may stand next to an error.
C9_ErrorKeepsPayload ==
    /\ (lastPayloadArg # NoCall /\ resultError # Undefined)
           => alertGroupPayload = before.payload
    /\ alertGroupPayload = installed

C9_Witness ==
    /\ lastPayloadArg # NoCall
    /\ resultError # Undefined
    /\ alertGroupPayload # Undefined
    /\ alertGroupPayload = before.payload

(***************************************************************************)
(* Properties of the editor.                                               *)
(***************************************************************************)
\* C2: whatever the renders in between the edits of a burst (each edit less
\* than 500 ms after the one before), a timer commits only the value of the
\* latest edit, and only once the 500 ms after that edit have passed.  A commit
\* at the very instant of an edit that came 500 ms or more after the one before
\* is the commit of the burst before it, and is left out.
C2_OnlyLastEditCommitted ==
    (commitEvent # NoCommit /\ (gap < DebounceWait \/ sinceEdit > 0))
        => /\ commitEvent = lastEdit
           /\ sinceEdit = DebounceWait

\* C10: Save makes one call, onUpdateRoute with channelFilterId for a route
\* template and onUpdateTemplates otherwise, with the single entry
\* {name: the value committed last}; an edit that is still pending is left out.
C10_SaveSubmitsCommitted ==
    ownerCalls # <<>>
        => /\ Len(ownerCalls) = 1
           /\ ownerCalls[1].callback =
                  (IF props.template.isRoute THEN "onUpdateRoute" ELSE "onUpdateTemplates")
           /\ props.template.isRoute => ownerCalls[1].channelFilterId = props.channelFilterId
           /\ ownerCalls[1].values = {<<props.template.name, committedBody>>}

C10_Witness ==
    /\ ownerCalls # <<>>
    /\ pending.armed
    /\ pending.value # committedBody
    /\ committedBody # props.templateBody
    /\ ownerCalls[1].values = {<<props.template.name, committedBody>>}

(***************************************************************************)
(* Properties of ScheduleFinal.                                            *)
(***************************************************************************)
\* C3: while the current date is before the window's start, however little,
\* the position is below 0 and the marker is hidden; the position is the
\* difference in whole minutes over 10080.
C3_BeforeStartHidden ==
    currentDateInSelectedTimezone < calendarStartDate
        => /\ view.currentTimeX.num < 0
           /\ view.currentTimeHidden
           /\ ~view.marker
           /\ view.currentTimeX.den = 10080

\* C6: n shifts give n lanes, lane i with the events of shift i in their order;
\* an empty or absent list gives one lane without events; there is always a lane.
C6_LanePreserving ==
    /\ Len(view.rotations) >= 1
    /\ (shifts # Undefined /\ Len(shifts.items) > 0)
           => /\ Len(view.rotations) = Len(shifts.items)
              /\ \A i \in 1..Len(shifts.items) :
                     view.rotations[i].events = shifts.items[i].events
    /\ (shifts = Undefined \/ Len(shifts.items) = 0)
           => /\ Len(view.rotations) = 1
              /\ view.rotations[1].events = <<>>

C6_Witness ==
    /\ shifts # Undefined
    /\ Len(shifts.items) = 2
    /\ Len(view.rotations) = 2
    /\ Len(view.rotations[1].events) = 2
    /\ view.rotations[1].events[1] # view.rotations[1].events[2]
    /\ view.rotations[1].events # view.rotations[2].events

\* the places of the entries of a list that are for the shift
Matches(entries, shiftReference) ==
    {i \in 1..Len(entries) : entries[i].shiftReference = shiftReference}

Lowest(S) == CHOOSE i \in S : \A j \in S : i <= j

\* the colour the precedence gives an event
ExpectedColor(event) ==
    LET om == Matches(overrides, shiftPk(event))
        lm == Matches(layers, shiftPk(event))
    IN IF om # {} THEN overrides[Lowest(om)].colorToken
       ELSE IF lm # {} THEN layers[Lowest(lm)].colorToken
       ELSE FallbackColor

\* C7: an event gets the colour of the first override for its shift, else of
\* the first layer for its shift, else the fallback colour.
C7_OverrideThenLayerThenFallback ==
    \A i \in 1..Len(view.rotations) :
        \A j \in 1..Len(view.rotations[i].events) :
            view.rotations[i].colors[j] = ExpectedColor(view.rotations[i].events[j])

\* two overrides and a layer for the shift of an event, the first override's
\* colour unlike the others'
C7_Witness ==
    \E j \in 1..Len(view.rotations[1].events) :
        LET event == view.rotations[1].events[j] IN
        /\ Cardinality(Matches(overrides, shiftPk(event))) = 2
        /\ Matches(layers, shiftPk(event)) # {}
        /\ overrides[1].colorToken # overrides[2].colorToken
        /\ overrides[1].colorToken # layers[Lowest(Matches(layers, shiftPk(event)))].colorToken
        /\ view.rotations[1].colors[j] = overrides[1].colorToken

====
